---- MODULE Spec2Model ----
(***************************************************************************)
(* A model of the kernel's text console (src/src/vga_buffer.rs) and of its *)
(* interrupt plumbing (src/src/interrupts.rs, src/src/lib.rs).             *)
(*                                                                         *)
(* The character grid is scaled down: BUFFER_WIDTH and BUFFER_HEIGHT are   *)
(* 80 and 25 in the source and are small numbers here.  Every operator is  *)
(* written against the two names, never against their values.              *)
(***************************************************************************)
EXTENDS Integers, Sequences, FiniteSets, TLC

\* ------------------------------------------------------------------ bounds
BUFFER_HEIGHT == 3
BUFFER_WIDTH == 6
\* Console calls (writer specification) explored from the initial state.
MaxOps == 3
\* Mainline console sections started plus interrupts delivered (machine
\* specification).
MaxEvents == 4

\* The same under the fair specifications, whose liveness checking costs
\* more for each state.
MaxFairEvents == 3

\* ------------------------------------------------------- program constants
NEWLINE == 10
TAB == 9
SPACE == 32
PRINTABLE_LO == 32
PRINTABLE_HI == 126
FALLBACK == 254
TAB_SPACES == 5
Black == 0
Green == 2

VARIABLES
    writer,     \* the Writer behind WRITER: column_position, color_code, buffer,
                \* and three ghost fields: the trace of the call in progress,
                \* whether an index went out of bounds (a Rust panic), and
                \* the number of new_line calls made since construction
    last,       \* ghost: the console call that produced this state
    nOps,       \* ghost: calls made and interrupts delivered so far (bounds
                \* the exploration)
    interrupts_enabled, \* the processor's interrupt flag
    idt_loaded,         \* IDT.load() has run
    pics_initialized,   \* PICS.lock().initialize() has run
    locks,      \* the spin locks WRITER, PICS, KEYBOARD: 0 when free, else
                \* the depth of the frame holding it (the holder is ghost)
    stack,      \* the execution contexts: the mainline code at the bottom,
                \* above it the interrupt handlers that interrupted it
    in_service, \* lines of the primary controller delivered and not yet
                \* acknowledged
    keyboard,   \* lazy_static KEYBOARD: the scancode decoder
    machine,    \* "running", or how the machine stopped
    simulated   \* the last vector handed to the controller driver directly,
                \* with the acknowledgments it sent (driver specification)

sysvars == <<interrupts_enabled, idt_loaded, pics_initialized, locks, stack,
             in_service, keyboard, machine, simulated>>

vars == <<writer, last, nOps, interrupts_enabled, idt_loaded,
          pics_initialized, locks, stack, in_service, keyboard, machine,
          simulated>>

Rows == 0 .. (BUFFER_HEIGHT - 1)
Cols == 0 .. (BUFFER_WIDTH - 1)

\* ColorCode::new: (background as u8) << 4 | (foreground as u8), in a u8.
\* The two nibbles do not overlap, so the bitwise or is a sum.
ColorCodeNew(foreground, background) ==
    ((background * 16) % 256) + foreground

ScreenChar(byte, color) == [ascii_character |-> byte, color_code |-> color]

\* Whatever the firmware left in the display memory: the writer never reads
\* it before overwriting it, the model tags each row so that rows differ.
InitBuffer ==
    [row \in Rows |-> [col \in Cols |-> ScreenChar(48 + row, 7)]]

\* lazy_static WRITER
WriterNew ==
    [column_position |-> 0,
     color_code      |-> ColorCodeNew(Green, Black),
     buffer          |-> InitBuffer,
     trace           |-> <<>>,
     panicked        |-> FALSE,
     scrolls         |-> 0]

Log(w, e) == [w EXCEPT !.trace = Append(@, e)]

\* Writer::clear_row
clear_row(w, row) ==
    LET blank == ScreenChar(SPACE, w.color_code)
    IN  [w EXCEPT !.buffer[row] = [col \in Cols |-> blank]]

\* Mutant of the row loop below: the rows are taken from the bottom up.
RECURSIVE ShiftRows_Reversed(_, _)
ShiftRows_Reversed(buf, row) ==
    IF row >= BUFFER_HEIGHT
    THEN buf
    ELSE LET r == BUFFER_HEIGHT - row
         IN  ShiftRows_Reversed(
                 [buf EXCEPT ![r - 1] = [col \in Cols |-> buf[r][col]]],
                 row + 1)

\* The row loop of Writer::new_line: for row in 1..BUFFER_HEIGHT, copy row
\* `row` onto row `row - 1`, cell by cell.
RECURSIVE ShiftRows(_, _)
ShiftRows(buf, row) ==
    IF row >= BUFFER_HEIGHT
    THEN buf
    ELSE ShiftRows([buf EXCEPT ![row - 1] = [col \in Cols |-> buf[row][col]]],
                   row + 1)

\* Mutant of new_line below: the last row is not cleared.
new_line_NoClear(w) ==
    IF w.panicked THEN w
    ELSE LET shifted == [w EXCEPT !.buffer = ShiftRows(w.buffer, 1)]
         IN  Log([shifted EXCEPT !.column_position = 0,
                                 !.scrolls = @ + 1],
                 [ev |-> "new_line"])

\* Mutant of new_line below: the column is not reset.
new_line_KeepColumn(w) ==
    IF w.panicked THEN w
    ELSE LET shifted == [w EXCEPT !.buffer = ShiftRows(w.buffer, 1)]
             cleared == clear_row(shifted, BUFFER_HEIGHT - 1)
         IN  Log([cleared EXCEPT !.scrolls = @ + 1],
                 [ev |-> "new_line"])

\* Writer::new_line
new_line(w) ==
    IF w.panicked THEN w
    ELSE LET shifted == [w EXCEPT !.buffer = ShiftRows(w.buffer, 1)]
             cleared == clear_row(shifted, BUFFER_HEIGHT - 1)
         IN  Log([cleared EXCEPT !.column_position = 0,
                                 !.scrolls = @ + 1],
                 [ev |-> "new_line"])

\* Mutants of the test below: an off-by-one comparison, and a wrap one
\* column early.
AtEndOfRow_OffByOne(w) == w.column_position > BUFFER_WIDTH

AtEndOfRow_Early(w) == w.column_position >= BUFFER_WIDTH - 1

\* The test of the default arm of Writer::write_byte.
AtEndOfRow(w) == w.column_position >= BUFFER_WIDTH

\* Mutant of the default arm below: the column is advanced before the
\* store instead of after it.
PutByte_AdvanceFirst(w, byte) ==
    LET w1  == IF AtEndOfRow(w) THEN new_line(w) ELSE w
        row == BUFFER_HEIGHT - 1
        col == w1.column_position + 1
    IN  IF w1.panicked THEN w1
        ELSE IF col \notin Cols THEN [w1 EXCEPT !.panicked = TRUE]
        ELSE Log([w1 EXCEPT !.buffer[row][col] = ScreenChar(byte, w1.color_code),
                            !.column_position = col],
                 [ev |-> "put", row |-> row, col |-> col, byte |-> byte])

\* Mutant of the default arm below: a byte outside the printable range is
\* replaced by the fallback glyph here, in write_byte.
PutByte_Fallback(w, byte) ==
    LET w1  == IF AtEndOfRow(w) THEN new_line(w) ELSE w
        row == BUFFER_HEIGHT - 1
        col == w1.column_position
        b   == IF byte >= PRINTABLE_LO /\ byte <= PRINTABLE_HI
               THEN byte ELSE FALLBACK
    IN  IF w1.panicked THEN w1
        ELSE IF col \notin Cols THEN [w1 EXCEPT !.panicked = TRUE]
        ELSE Log([w1 EXCEPT !.buffer[row][col] = ScreenChar(b, w1.color_code),
                            !.column_position = col + 1],
                 [ev |-> "put", row |-> row, col |-> col, byte |-> b])

\* The default arm of Writer::write_byte: wrap when the row is full, then
\* store the byte in the bottom row and advance.  Indexing the grid with a
\* column outside it is a panic.
PutByte(w, byte) ==
    LET w1  == IF AtEndOfRow(w) THEN new_line(w) ELSE w
        row == BUFFER_HEIGHT - 1
        col == w1.column_position
    IN  IF w1.panicked THEN w1
        ELSE IF col \notin Cols THEN [w1 EXCEPT !.panicked = TRUE]
        ELSE Log([w1 EXCEPT !.buffer[row][col] = ScreenChar(byte, w1.color_code),
                            !.column_position = col + 1],
                 [ev |-> "put", row |-> row, col |-> col, byte |-> byte])

\* Writer::write_byte
RECURSIVE write_byte(_, _), RepeatWriteByte(_, _, _)
write_byte(w, byte) ==
    IF w.panicked THEN w
    ELSE LET w0 == Log(w, [ev |-> "write_byte", byte |-> byte])
         IN  IF byte = NEWLINE THEN new_line(w0)
             ELSE IF byte = TAB THEN RepeatWriteByte(w0, SPACE, TAB_SPACES)
             ELSE PutByte(w0, byte)

\* Mutant of the loop below: the byte is repeated up to the next column
\* that is a multiple of n (an aligned tab stop).
RECURSIVE RepeatWriteByte_ToTabStop(_, _, _)
RepeatWriteByte_ToTabStop(w, byte, n) ==
    LET w1 == write_byte(w, byte)
    IN  IF w1.panicked \/ w1.column_position % n = 0
        THEN w1
        ELSE RepeatWriteByte_ToTabStop(w1, byte, n)

\* for _ in 0..n { self.write_byte(byte) }
RepeatWriteByte(w, byte, n) ==
    IF n = 0 THEN w ELSE RepeatWriteByte(write_byte(w, byte), byte, n - 1)

\* Mutant of the pattern below: the printable range taken as 0x20..=0x7f.
Accepted_Through7f(byte) ==
    \/ (byte >= PRINTABLE_LO /\ byte <= PRINTABLE_HI + 1)
    \/ byte = NEWLINE
    \/ byte = TAB

\* The pattern 0x20..=0x7e | b'\n' | b'\t' of Writer::write_string
Accepted(byte) ==
    \/ (byte >= PRINTABLE_LO /\ byte <= PRINTABLE_HI)
    \/ byte = NEWLINE
    \/ byte = TAB

\* The body of the loop of Writer::write_string, for one byte
write_string_byte(w, byte) ==
    LET w0 == Log(w, [ev |-> "str_byte", byte |-> byte])
    IN  IF w.panicked THEN w
        ELSE IF Accepted(byte) THEN write_byte(w0, byte)
        ELSE write_byte(w0, FALLBACK)

\* Writer::write_string
RECURSIVE write_string(_, _)
write_string(w, s) ==
    IF s = <<>> THEN w
    ELSE write_string(write_string_byte(w, Head(s)), Tail(s))

\* ------------------------------------------------------------------ inputs
Printable(byte) == byte >= PRINTABLE_LO /\ byte <= PRINTABLE_HI

\* Bytes given to write_byte: the two control bytes, both ends of the
\* printable range and their neighbours, a letter, a byte of a multi-byte
\* character and the fallback glyph itself.
ByteInputs == {TAB, NEWLINE, 31, SPACE, 65, 126, 127, 195, FALLBACK}

\* n distinct letters: "A", "AB", "ABC", ...
Run(n) == [i \in 1 .. n |-> 64 + i]

\* Strings given to write_string (a &str is valid UTF-8, so a byte above
\* 0x7f appears only inside a whole multi-byte character): the empty string,
\* single letters and control characters, mixtures of them (one with two
\* newlines, as the text of test_println_output has), the two-byte
\* character U+00E9 alone and after a letter, and runs of one letter up to
\* one more than a row holds.
StrInputs ==
    {<<>>, <<65>>, <<NEWLINE>>, <<TAB>>, <<31>>, <<127>>,
     <<65, 66>>, <<65, NEWLINE>>, <<NEWLINE, 65>>, <<31, 65>>,
     <<65, NEWLINE, 66>>, <<NEWLINE, 65, NEWLINE>>,
     <<195, 169>>, <<66, 195, 169>>}
      \cup {Run(n) : n \in (BUFFER_WIDTH - 1) .. (BUFFER_WIDTH + 1)}

Begin(w) == [w EXCEPT !.trace = <<>>]

\* ---------------------------------------------------------- the machine
PIC_1_OFFSET == 32
PIC_2_OFFSET == PIC_1_OFFSET + 8

\* enum InterruptIndex
Timer == PIC_1_OFFSET
Keyboard == Timer + 1

\* The vector the controllers send for line 0 before they are remapped: it
\* falls among the processor's exceptions, on the double fault.
DOUBLE_FAULT_VECTOR == 8

\* ChainedPics::new(offset1, offset2): the primary controller first
ChainedPicsNew(offset1, offset2) ==
    <<[name |-> "primary", offset |-> offset1],
      [name |-> "secondary", offset |-> offset2]>>

\* Mutant of PICS below: the two offsets given in the other order.
PICS_Swapped == ChainedPicsNew(PIC_2_OFFSET, PIC_1_OFFSET)

\* static PICS
PICS == ChainedPicsNew(PIC_1_OFFSET, PIC_2_OFFSET)

\* Pic::handles_interrupt: each controller serves eight lines
HandlesInterrupt(pic, vector) ==
    pic.offset <= vector /\ vector < pic.offset + 8

\* ChainedPics::notify_end_of_interrupt, as the controller driver's contract
\* states it: the acknowledgments sent for a vector, in order.  A vector of
\* the secondary controller acknowledges the secondary, then the primary
\* through which it is cascaded; a vector of neither acknowledges nothing.
NotifyEndOfInterrupt(pics, vector) ==
    IF HandlesInterrupt(pics[1], vector) \/ HandlesInterrupt(pics[2], vector)
    THEN (IF HandlesInterrupt(pics[2], vector)
          THEN <<pics[2].name>> ELSE <<>>) \o <<pics[1].name>>
    ELSE <<>>

\* The controller's side of an acknowledgment: an end-of-interrupt command
\* to the primary controller retires its highest-priority line in service.
Retire(lines, acks) ==
    IF lines # {} /\ \E i \in 1 .. Len(acks) : acks[i] = "primary"
    THEN lines \ {CHOOSE l \in lines : \A m \in lines : l <= m}
    ELSE lines

\* An execution context.  pc is its position; sect, saved, pending and ret
\* belong to the console section it is in (a _print call or the closure of
\* test_println_output); vector and iflag are what the processor pushed
\* when it entered a handler; log is the ghost record of what the handler
\* invocation did.
Frame(kind, pc, vector, iflag) ==
    [kind |-> kind, pc |-> pc, vector |-> vector, iflag |-> iflag,
     sect |-> "none", saved |-> FALSE, pending |-> <<>>, ret |-> "none",
     scancode |-> 0, outcome |-> "none", expect |-> <<>>, log |-> <<>>]

Init ==
    /\ writer = WriterNew
    /\ last = [op |-> "none", byte |-> 0, str |-> <<>>]
    /\ nOps = 0
    /\ interrupts_enabled = FALSE
    /\ idt_loaded = FALSE
    /\ pics_initialized = FALSE
    /\ locks = [WRITER |-> 0, PICS |-> 0, KEYBOARD |-> 0]
    /\ stack = <<Frame("main", "init_gdt", 0, FALSE)>>
    /\ in_service = {}
    /\ keyboard = [created |-> FALSE, state |-> "Start"]
    /\ machine = "running"
    /\ simulated = [vector |-> 0, acks |-> <<>>]

Depth == Len(stack)
Top == stack[Depth]
SetTop(f) == [stack EXCEPT ![Depth] = f]
At(pc) == machine = "running" /\ Top.pc = pc
Goto(pc) == stack' = SetTop([Top EXCEPT !.pc = pc])

\* ------------------------------------------------------------- lib::init
\* gdt::init()
InitGdt ==
    /\ At("init_gdt")
    /\ Goto("init_idt")
    /\ UNCHANGED <<simulated, writer, last, nOps, interrupts_enabled, idt_loaded,
                   pics_initialized, locks, in_service, keyboard, machine>>

\* Mutant of InitIdt below: init goes on without loading the table.
InitIdt_NotLoaded ==
    /\ At("init_idt")
    /\ Goto("init_pics_lock")
    /\ UNCHANGED <<simulated, writer, last, nOps, interrupts_enabled, idt_loaded,
                   pics_initialized, locks, in_service, keyboard, machine>>

\* interrupts::init_idt(): IDT.load()
InitIdt ==
    /\ At("init_idt")
    /\ idt_loaded' = TRUE
    /\ Goto("init_pics_lock")
    /\ UNCHANGED <<simulated, writer, last, nOps, interrupts_enabled,
                   pics_initialized, locks, in_service, keyboard, machine>>

\* interrupts::PICS.lock(): a spin lock, taken only when free
InitPicsLock ==
    /\ At("init_pics_lock")
    /\ locks.PICS = 0
    /\ locks' = [locks EXCEPT !.PICS = Depth]
    /\ Goto("init_pics")
    /\ UNCHANGED <<simulated, writer, last, nOps, interrupts_enabled, idt_loaded,
                   pics_initialized, in_service, keyboard, machine>>

\* .initialize()
InitPics ==
    /\ At("init_pics")
    /\ pics_initialized' = TRUE
    /\ Goto("init_pics_unlock")
    /\ UNCHANGED <<simulated, writer, last, nOps, interrupts_enabled, idt_loaded,
                   locks, in_service, keyboard, machine>>

\* The guard is a temporary: it is dropped at the end of the statement.
InitPicsUnlock ==
    /\ At("init_pics_unlock")
    /\ locks' = [locks EXCEPT !.PICS = 0]
    /\ Goto("init_enable")
    /\ UNCHANGED <<simulated, writer, last, nOps, interrupts_enabled, idt_loaded,
                   pics_initialized, in_service, keyboard, machine>>

\* x86_64::instructions::interrupts::enable()
InitEnable ==
    /\ At("init_enable")
    /\ interrupts_enabled' = TRUE
    /\ Goto("main")
    /\ UNCHANGED <<simulated, writer, last, nOps, idt_loaded, pics_initialized, locks,
                   in_service, keyboard, machine>>

\* ------------------------------------------------- a console section
\* Enter a console section from position Top.pc: a _print call ("print") or
\* the closure of test_println_output ("test"), writing the bytes `s` and
\* going on at `ret`.
Enter(f, sect, s, ret) ==
    [f EXCEPT !.pc = "wi_flag", !.sect = sect, !.pending = s, !.ret = ret,
              !.saved = FALSE]

\* Mutant of WithoutInterruptsSave below: the flag is taken to be clear.
WithoutInterruptsSave_Never ==
    /\ At("wi_flag")
    /\ stack' = SetTop([Top EXCEPT !.saved = FALSE, !.pc = "wi_cli"])
    /\ UNCHANGED <<simulated, writer, last, nOps, interrupts_enabled, idt_loaded,
                   pics_initialized, locks, in_service, keyboard, machine>>

\* without_interrupts: let saved = are_enabled()
WithoutInterruptsSave ==
    /\ At("wi_flag")
    /\ stack' = SetTop([Top EXCEPT !.saved = interrupts_enabled,
                                   !.pc = "wi_cli"])
    /\ UNCHANGED <<simulated, writer, last, nOps, interrupts_enabled, idt_loaded,
                   pics_initialized, locks, in_service, keyboard, machine>>

\* Mutant of WithoutInterruptsDisable below: the closure is run without
\* disabling the interrupts.
WithoutInterruptsDisable_Skipped ==
    /\ At("wi_cli")
    /\ Goto("lock")
    /\ UNCHANGED <<simulated, writer, last, nOps, interrupts_enabled, idt_loaded,
                   pics_initialized, locks, in_service, keyboard, machine>>

\* without_interrupts: if saved { disable() }
WithoutInterruptsDisable ==
    /\ At("wi_cli")
    /\ interrupts_enabled' = (IF Top.saved THEN FALSE ELSE interrupts_enabled)
    /\ Goto("lock")
    /\ UNCHANGED <<simulated, writer, last, nOps, idt_loaded, pics_initialized, locks,
                   in_service, keyboard, machine>>

\* WRITER.lock(): a spin lock; while it is held the caller spins here
WriterLock ==
    /\ At("lock")
    /\ locks.WRITER = 0
    /\ locks' = [locks EXCEPT !.WRITER = Depth]
    /\ writer' = Begin(writer)
    /\ Goto("write")
    /\ UNCHANGED <<simulated, last, nOps, interrupts_enabled, idt_loaded,
                   pics_initialized, in_service, keyboard, machine>>

\* write_fmt(args) -> write_str -> write_string, one byte of the formatted
\* text per step; after the last byte the section goes on.
WriteFmt ==
    /\ At("write")
    /\ IF Top.pending = <<>>
       THEN /\ Goto(IF Top.sect = "test" THEN "readback" ELSE "unlock")
            /\ UNCHANGED <<writer, machine>>
       ELSE /\ writer' = write_string_byte(writer, Head(Top.pending))
            /\ machine' = (IF writer'.panicked THEN "panicked" ELSE machine)
            /\ stack' = SetTop([Top EXCEPT
                   !.pending = Tail(@),
                   !.log = Append(@, [ev |-> "write", arg |-> Head(Top.pending)])])
    /\ UNCHANGED <<simulated, last, nOps, interrupts_enabled, idt_loaded,
                   pics_initialized, locks, in_service, keyboard>>

\* The string of test_println_output ("Some test string that fits on a
\* single line"), scaled with the grid: it leaves room in its row.
TestString == Run(BUFFER_WIDTH - 2)

\* The strings the test is run with: s is a local of the test, so any
\* printable string of at most one row can stand in its place.
TestStrings == {Run(1), TestString, Run(BUFFER_WIDTH)}

\* The read-back loop of test_println_output: a cell that differs fails
\* the assertion, which is a panic.
ReadBack ==
    /\ At("readback")
    /\ IF \A i \in 1 .. Len(Top.expect) :
             writer.buffer[BUFFER_HEIGHT - 2][i - 1].ascii_character
                = Top.expect[i]
       THEN /\ stack' = SetTop([Top EXCEPT !.pc = "unlock", !.expect = <<>>])
            /\ UNCHANGED machine
       ELSE machine' = "panicked" /\ UNCHANGED stack
    /\ UNCHANGED <<simulated, writer, last, nOps, interrupts_enabled, idt_loaded,
                   pics_initialized, locks, in_service, keyboard>>

\* The guard of WRITER is dropped inside the closure.
WriterUnlock ==
    /\ At("unlock")
    /\ locks' = [locks EXCEPT !.WRITER = 0]
    /\ Goto("wi_sti")
    /\ UNCHANGED <<simulated, writer, last, nOps, interrupts_enabled, idt_loaded,
                   pics_initialized, in_service, keyboard, machine>>

\* Mutant of WithoutInterruptsRestore below: the interrupts are enabled
\* whatever the saved flag.
WithoutInterruptsRestore_AlwaysEnable ==
    /\ At("wi_sti")
    /\ interrupts_enabled' = TRUE
    /\ stack' = SetTop([Top EXCEPT !.pc = Top.ret, !.sect = "none",
                                   !.saved = FALSE, !.ret = "none"])
    /\ UNCHANGED <<simulated, writer, last, nOps, idt_loaded, pics_initialized, locks,
                   in_service, keyboard, machine>>

\* without_interrupts: if saved { enable() }, and the caller goes on
WithoutInterruptsRestore ==
    /\ At("wi_sti")
    /\ interrupts_enabled' = (IF Top.saved THEN TRUE ELSE interrupts_enabled)
    /\ stack' = SetTop([Top EXCEPT !.pc = Top.ret, !.sect = "none",
                                   !.saved = FALSE, !.ret = "none"])
    /\ UNCHANGED <<simulated, writer, last, nOps, idt_loaded, pics_initialized, locks,
                   in_service, keyboard, machine>>

\* -------------------------------------------------------- mainline code
\* What the mainline code prints (print! and println!).
MainStrings == {<<77>>, <<78, NEWLINE>>}

CanStart == nOps < MaxEvents

\* print!/println! in mainline code: _print(args)
MainPrint ==
    /\ At("main")
    /\ Top.kind = "main"
    /\ CanStart
    /\ \E s \in MainStrings :
          stack' = SetTop(Enter([Top EXCEPT !.log = <<>>], "print", s, "main"))
    /\ nOps' = nOps + 1
    /\ UNCHANGED <<simulated, writer, last, interrupts_enabled, idt_loaded,
                   pics_initialized, locks, in_service, keyboard, machine>>

\* test_println_output: writeln!(writer, "\n{}", s) and the read-back, in
\* one closure under without_interrupts
MainTestOutput_NoNewline ==
    /\ At("main")
    /\ Top.kind = "main"
    /\ CanStart
    /\ \E s \in TestStrings :
         stack' = SetTop(Enter([Top EXCEPT !.log = <<>>, !.expect = s], "test",
                               <<NEWLINE>> \o s, "main"))
    /\ nOps' = nOps + 1
    /\ UNCHANGED <<simulated, writer, last, interrupts_enabled, idt_loaded,
                   pics_initialized, locks, in_service, keyboard, machine>>

MainTestOutput ==
    /\ At("main")
    /\ Top.kind = "main"
    /\ CanStart
    /\ \E s \in TestStrings :
         stack' = SetTop(Enter([Top EXCEPT !.log = <<>>, !.expect = s], "test",
                               <<NEWLINE>> \o s \o <<NEWLINE>>, "main"))
    /\ nOps' = nOps + 1
    /\ UNCHANGED <<simulated, writer, last, interrupts_enabled, idt_loaded,
                   pics_initialized, locks, in_service, keyboard, machine>>

\* ------------------------------------------------- interrupt delivery
\* The handler the loaded table binds to a vector (lazy_static IDT): the
\* two hardware interrupts and the double fault; "none" for an empty slot.
IdtHandler(vector) ==
    IF vector = Timer THEN "timer"
    ELSE IF vector = Keyboard THEN "keyboard"
    ELSE IF vector = DOUBLE_FAULT_VECTOR THEN "double_fault"
    ELSE "none"

\* The first position of a handler.
EntryPc(kind) == IF kind = "timer" THEN "t_print" ELSE "k_lock"

\* A line in service holds back itself and the lines of lower priority
\* (higher number) until it is acknowledged.
Blocked(line) == \E l \in in_service : l <= line

\* The vector the primary controller sends for a line: its configured
\* offset plus the line once initialize() has remapped it.
VectorOf(line) ==
    (IF pics_initialized THEN PICS[1].offset ELSE DOUBLE_FAULT_VECTOR) + line

\* The processor takes a hardware interrupt between two instructions of the
\* running code when its interrupt flag is set.  An interrupt gate pushes
\* the flags and clears the interrupt flag.  Without a loaded table the
\* machine resets; a vector with no hardware-interrupt handler ends in the
\* double fault, which never returns.
Interrupt(line) ==
    /\ machine = "running"
    /\ interrupts_enabled
    /\ CanStart
    /\ ~Blocked(line)
    /\ nOps' = nOps + 1
    /\ LET vector == VectorOf(line)
           kind   == IdtHandler(vector)
       IN  IF ~idt_loaded
           THEN /\ machine' = "reset"
                /\ UNCHANGED <<stack, interrupts_enabled, in_service>>
           ELSE IF kind \in {"timer", "keyboard"}
           THEN /\ stack' = Append(stack, Frame(kind, EntryPc(kind), vector,
                                                interrupts_enabled))
                /\ interrupts_enabled' = FALSE
                /\ in_service' = in_service \cup {line}
                /\ UNCHANGED machine
           ELSE /\ machine' = "double_fault"
                /\ UNCHANGED <<stack, interrupts_enabled, in_service>>
    /\ UNCHANGED <<simulated, writer, last, idt_loaded, pics_initialized, locks,
                   keyboard>>

\* The timer is line 0 of the primary controller, the keyboard line 1.
TimerInterrupt == Interrupt(Timer - PIC_1_OFFSET)

KeyboardInterrupt == Interrupt(Keyboard - PIC_1_OFFSET)

\* PICS.lock() in a handler
PicsLock(from, to) ==
    /\ At(from)
    /\ locks.PICS = 0
    /\ locks' = [locks EXCEPT !.PICS = Depth]
    /\ Goto(to)
    /\ UNCHANGED <<simulated, writer, last, nOps, interrupts_enabled, idt_loaded,
                   pics_initialized, in_service, keyboard, machine>>

\* .notify_end_of_interrupt(vector)
Eoi(from, to, vector) ==
    /\ At(from)
    /\ LET acks == NotifyEndOfInterrupt(PICS, vector)
       IN  /\ stack' = SetTop([Top EXCEPT
                  !.pc = to,
                  !.log = Append(@, [ev |-> "eoi", arg |-> vector])
                            \o [i \in 1 .. Len(acks) |->
                                   [ev |-> "ack", arg |-> acks[i]]]])
           /\ in_service' = Retire(in_service, acks)
    /\ UNCHANGED <<simulated, writer, last, nOps, interrupts_enabled, idt_loaded,
                   pics_initialized, locks, keyboard, machine>>

\* The guard of PICS is a temporary, dropped at the end of the statement.
PicsUnlock(from, to) ==
    /\ At(from)
    /\ locks' = [locks EXCEPT !.PICS = 0]
    /\ Goto(to)
    /\ UNCHANGED <<simulated, writer, last, nOps, interrupts_enabled, idt_loaded,
                   pics_initialized, in_service, keyboard, machine>>

\* The return of an "x86-interrupt" function: iretq pops the frame and
\* restores the flags the processor pushed.
InterruptReturn(from) ==
    /\ At(from)
    /\ interrupts_enabled' = Top.iflag
    /\ stack' = SubSeq(stack, 1, Depth - 1)
    /\ UNCHANGED <<simulated, writer, last, nOps, idt_loaded, pics_initialized, locks,
                   in_service, keyboard, machine>>

\* ------------------------------------------- timer_interrupt_handler
\* print!(".")
TimerPrint ==
    /\ At("t_print")
    /\ stack' = SetTop(Enter(Top, "print", <<46>>, "t_pics_lock"))
    /\ UNCHANGED <<simulated, writer, last, nOps, interrupts_enabled, idt_loaded,
                   pics_initialized, locks, in_service, keyboard, machine>>

TimerPicsLock == PicsLock("t_pics_lock", "t_eoi")

\* Mutant of TimerEoi below: the keyboard's vector is acknowledged.
TimerEoi_WrongVector == Eoi("t_eoi", "t_pics_unlock", Keyboard)

\* Mutant of TimerEoi below: the handler goes on without acknowledging.
TimerEoi_Missing ==
    /\ At("t_eoi")
    /\ Goto("t_pics_unlock")
    /\ UNCHANGED <<simulated, writer, last, nOps, interrupts_enabled, idt_loaded,
                   pics_initialized, locks, in_service, keyboard, machine>>

\* PICS.lock().notify_end_of_interrupt(InterruptIndex::Timer as u8)
TimerEoi == Eoi("t_eoi", "t_pics_unlock", Timer)

TimerPicsUnlock == PicsUnlock("t_pics_unlock", "t_iret")

TimerReturn == InterruptReturn("t_iret")

\* ---------------------------------------- keyboard_interrupt_handler
\* Scancodes the data port may hold: an unmapped code, the press and the
\* release of a letter, a function key, the extended prefix, and a code
\* that means one key after the prefix and another without it.
ScancodeInputs == {0, 30, 158, 59, 224, 72}

\* Keyboard::add_byte followed by Keyboard::process_keyevent, as the
\* decoder collaborator's contract states them: the decode state after the
\* byte, the outcome, and the text print! formats for a decoded key.
\*   "error"    add_byte returned Err
\*   "none"     add_byte returned Ok(None): no complete key event yet
\*   "nothing"  process_keyevent returned None
\*   "unicode"  DecodedKey::Unicode(character)
\*   "raw"      DecodedKey::RawKey(key)
Decode(state, scancode) ==
    LET r(s, o, t) == [state |-> s, outcome |-> o, text |-> t]
    IN  IF state = "Start"
        THEN CASE scancode = 224 -> r("Extended", "none", <<>>)
               [] scancode = 30  -> r("Start", "unicode", <<97>>)
               [] scancode = 158 -> r("Start", "nothing", <<>>)
               [] scancode = 59  -> r("Start", "raw", <<70, 49>>)
               [] scancode = 72  -> r("Start", "unicode", <<56>>)
               [] OTHER          -> r("Start", "error", <<>>)
        ELSE CASE scancode = 72  -> r("Start", "raw", <<65, 114, 114, 111, 119, 85, 112>>)
               [] OTHER          -> r("Start", "error", <<>>)

\* Mutant of KeyboardLock below: a new decoder for every invocation.
KeyboardLock_NewDecoder ==
    /\ At("k_lock")
    /\ locks.KEYBOARD = 0
    /\ locks' = [locks EXCEPT !.KEYBOARD = Depth]
    /\ keyboard' = [created |-> TRUE, state |-> "Start"]
    /\ Goto("k_read")
    /\ UNCHANGED <<simulated, writer, last, nOps, interrupts_enabled, idt_loaded,
                   pics_initialized, in_service, machine>>

\* KEYBOARD.lock(): the lazy_static decoder is created by the first use
\* and kept
KeyboardLock ==
    /\ At("k_lock")
    /\ locks.KEYBOARD = 0
    /\ locks' = [locks EXCEPT !.KEYBOARD = Depth]
    /\ keyboard' = (IF keyboard.created THEN keyboard
                    ELSE [created |-> TRUE, state |-> "Start"])
    /\ Goto("k_read")
    /\ UNCHANGED <<simulated, writer, last, nOps, interrupts_enabled, idt_loaded,
                   pics_initialized, in_service, machine>>

\* let scancode: u8 = port.read()
KeyboardRead ==
    /\ At("k_read")
    /\ \E scancode \in ScancodeInputs :
          stack' = SetTop([Top EXCEPT
              !.pc = "k_decode",
              !.scancode = scancode,
              !.log = Append(@, [ev |-> "read", arg |-> scancode])])
    /\ UNCHANGED <<simulated, writer, last, nOps, interrupts_enabled, idt_loaded,
                   pics_initialized, locks, in_service, keyboard, machine>>

\* keyboard.add_byte(scancode), keyboard.process_keyevent(key_event) and
\* the print! of a decoded key
KeyboardDecode ==
    /\ At("k_decode")
    /\ LET r == Decode(keyboard.state, Top.scancode)
           f == [Top EXCEPT !.outcome = r.outcome,
                            !.log = Append(@, [ev |-> "decode",
                                               arg |-> r.outcome])]
       IN  /\ keyboard' = [keyboard EXCEPT !.state = r.state]
           /\ stack' = SetTop(IF r.outcome \in {"unicode", "raw"}
                              THEN Enter(f, "print", r.text, "k_pics_lock")
                              ELSE [f EXCEPT !.pc = "k_pics_lock"])
    /\ UNCHANGED <<simulated, writer, last, nOps, interrupts_enabled, idt_loaded,
                   pics_initialized, locks, in_service, machine>>

KeyboardPicsLock == PicsLock("k_pics_lock", "k_eoi")

\* PICS.lock().notify_end_of_interrupt(InterruptIndex::Keyboard as u8)
KeyboardEoi == Eoi("k_eoi", "k_pics_unlock", Keyboard)

KeyboardPicsUnlock == PicsUnlock("k_pics_unlock", "k_unlock")

\* The guard `keyboard` is a local: it is dropped at the end of the
\* function, after the acknowledgment.
KeyboardUnlock ==
    /\ At("k_unlock")
    /\ locks' = [locks EXCEPT !.KEYBOARD = 0]
    /\ Goto("k_iret")
    /\ UNCHANGED <<simulated, writer, last, nOps, interrupts_enabled, idt_loaded,
                   pics_initialized, in_service, keyboard, machine>>

KeyboardReturn == InterruptReturn("k_iret")

\* ----------------------------------------------------- specifications
\* The controller driver alone: a vector is handed to
\* notify_end_of_interrupt directly, as a simulated delivery.
SimulatedDelivery ==
    /\ \E vector \in 0 .. 255 :
          simulated' = [vector |-> vector,
                        acks   |-> NotifyEndOfInterrupt(PICS, vector)]
    /\ UNCHANGED <<writer, last, nOps, interrupts_enabled, idt_loaded,
                   pics_initialized, locks, stack, in_service, keyboard,
                   machine>>

NextPic == SimulatedDelivery

SpecPic == Init /\ [][NextPic]_vars

\* The machine: init(), the mainline code, the interrupts and their handlers.
Next ==
    \/ InitGdt \/ InitIdt \/ InitPicsLock \/ InitPics \/ InitPicsUnlock
    \/ InitEnable
    \/ MainPrint \/ MainTestOutput
    \/ WithoutInterruptsSave \/ WithoutInterruptsDisable \/ WriterLock
    \/ WriteFmt \/ ReadBack \/ WriterUnlock \/ WithoutInterruptsRestore
    \/ TimerInterrupt \/ KeyboardInterrupt
    \/ TimerPrint \/ TimerPicsLock \/ TimerEoi \/ TimerPicsUnlock
    \/ TimerReturn
    \/ KeyboardLock \/ KeyboardRead \/ KeyboardDecode \/ KeyboardPicsLock
    \/ KeyboardEoi \/ KeyboardPicsUnlock \/ KeyboardUnlock \/ KeyboardReturn

Spec == Init /\ [][Next]_vars

\* ------------------------------------------------- exceptions and traps
\* The vectors of the exceptions the table binds handlers to
\* (idt.breakpoint, idt.page_fault).
BREAKPOINT_VECTOR == 3

PAGE_FAULT_VECTOR == 14

\* The handler the loaded table binds to an exception vector.
ExceptionHandler(vector) ==
    IF vector = BREAKPOINT_VECTOR THEN "breakpoint"
    ELSE IF vector = DOUBLE_FAULT_VECTOR THEN "double_fault"
    ELSE IF vector = PAGE_FAULT_VECTOR THEN "page_fault"
    ELSE "none"

ExceptionEntry(kind) ==
    IF kind = "breakpoint" THEN "bp_print"
    ELSE IF kind = "double_fault" THEN "df_panic"
    ELSE "pf_header"

\* An instruction of the mainline code, between two console sections and
\* after init(), raises an exception: like the hardware interrupts the
\* exceptions are delivered through interrupt gates, which push the flags
\* and clear the interrupt flag.
Exception(vector) ==
    /\ At("main")
    /\ Top.kind = "main"
    /\ CanStart
    /\ idt_loaded
    /\ nOps' = nOps + 1
    /\ LET kind == ExceptionHandler(vector)
       IN  stack' = Append(stack, Frame(kind, ExceptionEntry(kind), vector,
                                        interrupts_enabled))
    /\ interrupts_enabled' = FALSE
    /\ UNCHANGED <<simulated, writer, last, idt_loaded, pics_initialized, locks,
                   in_service, keyboard, machine>>

\* test_breakpoint_exception: int3()
MainBreakpoint == Exception(BREAKPOINT_VECTOR)

\* An access of the mainline code to an address that is not mapped.
MainPageFault == Exception(PAGE_FAULT_VECTOR)

\* A fault of the mainline code whose handler cannot be called, as when the
\* stack is exhausted.
MainDoubleFault == Exception(DOUBLE_FAULT_VECTOR)

\* A println! of an exception handler: the invocation notes its first byte
\* and enters the console section.
Println(from, text, to) ==
    /\ At(from)
    /\ stack' = SetTop(Enter([Top EXCEPT
                   !.log = Append(@, [ev |-> "println", arg |-> Head(text)])],
                             "print", text, to))
    /\ UNCHANGED <<simulated, writer, last, nOps, interrupts_enabled, idt_loaded,
                   pics_initialized, locks, in_service, keyboard, machine>>

\* "EXCEPTION: BREAKPOINT\n{:#?}\n" scaled with the grid: a heading, a
\* newline, the dump of the frame, a newline.
BreakpointText == <<66, NEWLINE, 70, NEWLINE>>

\* breakpoint_handler: println!("EXCEPTION: BREAKPOINT\n{:#?}", stack_frame)
BreakpointPrint == Println("bp_print", BreakpointText, "bp_iret")

\* Mutant of BreakpointReturn below: the handler parks the processor.
BreakpointReturn_Halts ==
    /\ At("bp_iret")
    /\ machine' = "halted"
    /\ UNCHANGED <<simulated, writer, last, nOps, interrupts_enabled, idt_loaded,
                   pics_initialized, locks, stack, in_service, keyboard>>

\* breakpoint_handler returns: iretq to the instruction after int3
BreakpointReturn == InterruptReturn("bp_iret")

\* The four lines of page_fault_handler, each scaled to one letter and its
\* newline: the heading, the accessed address, the error code, the frame.
PageFaultHeading == <<80, NEWLINE>>

PageFaultAddressText == <<65, NEWLINE>>

PageFaultErrorCodeText == <<69, NEWLINE>>

PageFaultFrameText == <<70, NEWLINE>>

\* println!("EXCEPTION: PAGE FAULT")
PageFaultHeader == Println("pf_header", PageFaultHeading, "pf_address")

\* println!("Accessed Address: {:?}", Cr2::read())
PageFaultAddress == Println("pf_address", PageFaultAddressText, "pf_error_code")

\* println!("Error Code: {:?}", error_code)
PageFaultErrorCode ==
    Println("pf_error_code", PageFaultErrorCodeText, "pf_frame")

\* println!("{:#?}", stack_frame)
PageFaultFrame == Println("pf_frame", PageFaultFrameText, "pf_hlt")

\* hlt_loop(): the processor is halted again whenever it wakes, so the
\* caller never goes on; with the interrupt flag clear it never wakes.
hlt_loop == machine' = "halted"

\* Mutant of PageFaultHalt below: the handler returns.
PageFaultHalt_Returns == InterruptReturn("pf_hlt")

\* page_fault_handler: hlt_loop()
PageFaultHalt ==
    /\ At("pf_hlt")
    /\ hlt_loop
    /\ UNCHANGED <<simulated, writer, last, nOps, interrupts_enabled, idt_loaded,
                   pics_initialized, locks, stack, in_service, keyboard>>

\* test_panic_handler: the panic is reported on the serial port, the
\* emulator is asked to exit, and the handler loops.
test_panic_handler(f) ==
    [f EXCEPT !.log = @ \o <<[ev |-> "serial", arg |-> 91],
                             [ev |-> "serial", arg |-> 69],
                             [ev |-> "exit_qemu", arg |-> 17]>>,
              !.pc = "panic_loop"]

\* double_fault_handler: panic!("EXCEPTION: DOUBLE FAULT\n{:#?}", ..), which
\* ends in the panic handler of the build that loads the table.
DoubleFaultPanic ==
    /\ At("df_panic")
    /\ stack' = SetTop(test_panic_handler(
                   [Top EXCEPT !.log = Append(@, [ev |-> "panic", arg |-> 68])]))
    /\ machine' = "panicked"
    /\ UNCHANGED <<simulated, writer, last, nOps, interrupts_enabled, idt_loaded,
                   pics_initialized, locks, in_service, keyboard>>

\* The machine with the exceptions of the mainline code.
NextTraps ==
    \/ Next
    \/ MainBreakpoint \/ MainPageFault \/ MainDoubleFault
    \/ BreakpointPrint \/ BreakpointReturn
    \/ PageFaultHeader \/ PageFaultAddress \/ PageFaultErrorCode
    \/ PageFaultFrame \/ PageFaultHalt
    \/ DoubleFaultPanic

SpecTraps == Init /\ [][NextTraps]_vars

\* The steps of the running code: every action of the machine but those
\* that start something new (a print of the mainline code, an interrupt).
\* The processor executes the running code as long as it can go on.
RunningStep ==
    \/ InitGdt \/ InitIdt \/ InitPicsLock \/ InitPics \/ InitPicsUnlock
    \/ InitEnable
    \/ WithoutInterruptsSave \/ WithoutInterruptsDisable \/ WriterLock
    \/ WriteFmt \/ ReadBack \/ WriterUnlock \/ WithoutInterruptsRestore
    \/ TimerPrint \/ TimerPicsLock \/ TimerEoi \/ TimerPicsUnlock
    \/ TimerReturn
    \/ KeyboardLock \/ KeyboardRead \/ KeyboardDecode \/ KeyboardPicsLock
    \/ KeyboardEoi \/ KeyboardPicsUnlock \/ KeyboardUnlock \/ KeyboardReturn

\* The running code of an exception handler.
RunningTrapStep ==
    \/ BreakpointPrint \/ BreakpointReturn
    \/ PageFaultHeader \/ PageFaultAddress \/ PageFaultErrorCode
    \/ PageFaultFrame \/ PageFaultHalt
    \/ DoubleFaultPanic

NextFair == Next /\ nOps' <= MaxFairEvents

SpecFair == Init /\ [][NextFair]_vars /\ WF_vars(RunningStep)

NextTrapsFair == NextTraps /\ nOps' <= MaxFairEvents

SpecTrapsFair ==
    Init /\ [][NextTrapsFair]_vars /\ WF_vars(RunningStep \/ RunningTrapStep)

\* ------------------------------------------------- writer specification
\* The writer alone, called directly: the rest of the machine stays as
\* it is after construction.
InitW == Init

CanCall == nOps < MaxOps /\ ~writer.panicked

CallWriteByte(b) ==
    /\ CanCall
    /\ writer' = write_byte(Begin(writer), b)
    /\ last' = [op |-> "write_byte", byte |-> b, str |-> <<>>]
    /\ nOps' = nOps + 1
    /\ UNCHANGED sysvars

CallWriteString(s) ==
    /\ CanCall
    /\ writer' = write_string(Begin(writer), s)
    /\ last' = [op |-> "write_string", byte |-> 0, str |-> s]
    /\ nOps' = nOps + 1
    /\ UNCHANGED sysvars

CallNewLine ==
    /\ CanCall
    /\ writer' = new_line(Begin(writer))
    /\ last' = [op |-> "new_line", byte |-> 0, str |-> <<>>]
    /\ nOps' = nOps + 1
    /\ UNCHANGED sysvars

WriteByteOp == \E b \in ByteInputs : CallWriteByte(b)
WriteStringOp == \E s \in StrInputs : CallWriteString(s)
NewLineOp == CallNewLine

NextW == WriteByteOp \/ WriteStringOp \/ NewLineOp

SpecW == InitW /\ [][NextW]_vars

\* ---------------------------------------------- properties of the writer
Events(tr, kind) == SelectSeq(tr, LAMBDA e : e.ev = kind)

\* A step of the writer specification that is the call `op`.
IsCall(op) == nOps' = nOps + 1 /\ last'.op = op

\* The column at which a glyph written from column c is placed.
PlaceCol(c) == IF c < BUFFER_WIDTH THEN c ELSE 0

Bottom == BUFFER_HEIGHT - 1

\* The cells of the grid other than (row, col) are the same before and
\* after the step.
OthersUnchanged(row, col) ==
    \A r \in Rows : \A c \in Cols :
        (r # row \/ c # col) => writer'.buffer[r][c] = writer.buffer[r][c]

\* C6: write_byte(b) of a printable byte b stores b, unchanged and with the
\* writer's color, in the bottom row at the column the cursor has when the
\* glyph is placed (the column before the call if it is less than the width,
\* column 0 after the wrap otherwise), then the column is that column plus
\* one; without a wrap no other cell changes.
C6_WriteBytePrintable ==
    [][ (IsCall("write_byte") /\ Printable(last'.byte)) =>
          LET c == PlaceCol(writer.column_position)
          IN  /\ ~writer'.panicked
              /\ writer'.buffer[Bottom][c]
                    = ScreenChar(last'.byte, writer.color_code)
              /\ writer'.column_position = c + 1
              /\ (writer.column_position < BUFFER_WIDTH
                    => OthersUnchanged(Bottom, c))
      ]_vars

\* C6 witness: a printable byte was written to a full row, so it was placed
\* at column 0 after a wrap.
C6_Witness ==
    /\ last.op = "write_byte"
    /\ Printable(last.byte)
    /\ Len(Events(writer.trace, "new_line")) = 1
    /\ writer.column_position = 1
    /\ writer.buffer[Bottom][0].ascii_character = last.byte

NeitherPrintableNorControl(byte) ==
    ~Printable(byte) /\ byte # NEWLINE /\ byte # TAB

\* C7 as claimed: write_byte(b) of a byte that is neither printable nor
\* newline nor tab stores the fallback glyph instead of b.
C7_Original ==
    [][ (IsCall("write_byte") /\ NeitherPrintableNorControl(last'.byte)) =>
          writer'.buffer[Bottom][PlaceCol(writer.column_position)]
                .ascii_character = FALLBACK
      ]_vars

\* C7 as amended: write_byte(b) of a byte that is neither printable nor
\* newline nor tab stores b itself at the cursor and advances the column by
\* one: the byte is not dropped, not replaced, and the call does not panic
\* (the replacement by the fallback glyph is made by write_string).
C7_WriteByteStoresRaw ==
    [][ (IsCall("write_byte") /\ NeitherPrintableNorControl(last'.byte)) =>
          LET c == PlaceCol(writer.column_position)
          IN  /\ ~writer'.panicked
              /\ writer'.buffer[Bottom][c].ascii_character = last'.byte
              /\ writer'.column_position = c + 1
              /\ Len(Events(writer'.trace, "put")) = 1
      ]_vars

\* C7 witness: write_byte was called with 0x1f and the cell holds 0x1f.
C7_Witness ==
    /\ last.op = "write_byte"
    /\ last.byte = 31
    /\ writer.column_position > 0
    /\ writer.buffer[Bottom][writer.column_position - 1].ascii_character = 31

\* The glyph write_string stores for a byte.
Glyph(byte) == IF Printable(byte) THEN byte ELSE FALLBACK

\* C8: write_string(s) takes the bytes of s in order, makes one write_byte
\* call per byte, and every byte that is neither printable nor newline nor
\* tab is stored as the fallback glyph 0xfe, byte by byte (each byte of a
\* multi-byte character gives its own fallback cell).
C8_WriteStringPerByte ==
    [][ IsCall("write_string") =>
          LET s     == last'.str
              tr    == writer'.trace
              taken == Events(tr, "str_byte")
              \* the write_byte calls made by write_string itself: each is
              \* the event right after a str_byte event
              calls == {i \in 1 .. Len(tr) : tr[i].ev = "str_byte"}
          IN  /\ ~writer'.panicked
              /\ [i \in 1 .. Len(taken) |-> taken[i].byte] = s
              /\ \A i \in calls :
                    /\ i < Len(tr)
                    /\ tr[i + 1].ev = "write_byte"
                    /\ tr[i + 1].byte
                         = (IF Accepted(tr[i].byte) THEN tr[i].byte ELSE FALLBACK)
                    /\ (NeitherPrintableNorControl(tr[i].byte) =>
                          /\ i + 1 < Len(tr)
                          /\ tr[i + 2].ev \in {"put", "new_line"}
                          /\ \E j \in {i + 2, i + 3} :
                                /\ j <= Len(tr)
                                /\ tr[j].ev = "put"
                                /\ tr[j].byte = FALLBACK)
              \* a string without control characters that fits in the rest
              \* of the row: its cells, read back from the grid
              /\ ((\A i \in 1 .. Len(s) : s[i] # NEWLINE /\ s[i] # TAB)
                    /\ writer.column_position + Len(s) <= BUFFER_WIDTH
                  => /\ \A i \in 1 .. Len(s) :
                           writer'.buffer[Bottom][writer.column_position + i - 1]
                              = ScreenChar(Glyph(s[i]), writer.color_code)
                     /\ writer'.column_position
                           = writer.column_position + Len(s))
      ]_vars

\* C8 witness: the two bytes of one multi-byte character were written and
\* left two fallback cells side by side.
C8_Witness ==
    /\ last.op = "write_string"
    /\ last.str = <<195, 169>>
    /\ writer.column_position >= 2
    /\ writer.buffer[Bottom][writer.column_position - 1].ascii_character = FALLBACK
    /\ writer.buffer[Bottom][writer.column_position - 2].ascii_character = FALLBACK

AllPrintable(s) == \A i \in 1 .. Len(s) : Printable(s[i])

\* C9: from column 0, a run of printable characters with no newline wraps
\* exactly once when it has width + 1 characters, and the wrap is made when
\* character width + 1 is written, not when character width is: a run of
\* width characters fills the bottom row and leaves the column at width; of
\* a run of width + 1 the first width are in the row above the bottom row,
\* the last is at column 0 of the bottom row, and the column is 1.
C9_OneWrapAtWidthPlusOne ==
    [][ (IsCall("write_string") /\ AllPrintable(last'.str)
            /\ writer.column_position = 0) =>
          LET s  == last'.str
              tr == writer'.trace
              wraps == {i \in 1 .. Len(tr) : tr[i].ev = "new_line"}
              putsBefore(i) ==
                  Cardinality({j \in 1 .. (i - 1) : tr[j].ev = "put"})
          IN  /\ (Len(s) <= BUFFER_WIDTH =>
                    /\ wraps = {}
                    /\ writer'.column_position = Len(s)
                    /\ \A i \in 1 .. Len(s) :
                          writer'.buffer[Bottom][i - 1].ascii_character = s[i])
              /\ (Len(s) = BUFFER_WIDTH + 1 =>
                    /\ Cardinality(wraps) = 1
                    /\ \A i \in wraps : putsBefore(i) = BUFFER_WIDTH
                    /\ \A i \in 1 .. BUFFER_WIDTH :
                          writer'.buffer[Bottom - 1][i - 1].ascii_character = s[i]
                    /\ writer'.buffer[Bottom][0].ascii_character
                          = s[BUFFER_WIDTH + 1]
                    /\ writer'.column_position = 1)
      ]_vars

\* C9 witness: width + 1 letters were written from column 0.
C9_Witness ==
    /\ last.op = "write_string"
    /\ last.str = Run(BUFFER_WIDTH + 1)
    /\ Len(Events(writer.trace, "put")) = BUFFER_WIDTH + 1
    /\ Len(Events(writer.trace, "new_line")) = 1
    /\ writer.buffer[Bottom - 1][0].ascii_character = 65

\* C10: the column is always within 0 .. width, every glyph is placed at a
\* column less than the width, and no call panics on an index out of the
\* grid.
C10_ColumnInRange ==
    /\ writer.column_position \in 0 .. BUFFER_WIDTH
    /\ ~writer.panicked
    /\ \A i \in 1 .. Len(writer.trace) :
          writer.trace[i].ev = "put" =>
              /\ writer.trace[i].col \in Cols
              /\ writer.trace[i].row \in Rows

\* C10 witness: the bottom row is full (the column equals the width) after
\* a call that placed a glyph in its last column.
C10_Witness ==
    /\ writer.column_position = BUFFER_WIDTH
    /\ writer.trace # <<>>
    /\ writer.trace[Len(writer.trace)].ev = "put"
    /\ writer.trace[Len(writer.trace)].col = BUFFER_WIDTH - 1

BlankRow(color) == [col \in Cols |-> ScreenChar(SPACE, color)]

\* C11: new_line() moves every row but the first up by one (row i becomes
\* the old row i + 1, character and color of every column), makes the last
\* row spaces in the writer's color and sets the column to 0; the old first
\* row is kept nowhere: when it differed from every row the new grid is
\* made of, no row of the new grid equals it.
C11_NewLineShifts ==
    [][ IsCall("new_line") =>
          /\ \A i \in 0 .. (BUFFER_HEIGHT - 2) :
                writer'.buffer[i] = writer.buffer[i + 1]
          /\ writer'.buffer[Bottom] = BlankRow(writer.color_code)
          /\ writer'.column_position = 0
          /\ writer'.color_code = writer.color_code
          /\ ((/\ \A i \in 1 .. Bottom : writer.buffer[i] # writer.buffer[0]
               /\ writer.buffer[0] # BlankRow(writer.color_code))
                => \A i \in Rows : writer'.buffer[i] # writer.buffer[0])
      ]_vars

\* C11 witness: new_line was called on a grid with text in its bottom row
\* and the cursor in the middle of it; the text is one row up.
C11_Witness ==
    /\ last.op = "new_line"
    /\ nOps = 2
    /\ writer.column_position = 0
    /\ writer.buffer[Bottom - 1][0].ascii_character = 65
    /\ writer.buffer[Bottom - 1][1].ascii_character = 66
    /\ writer.buffer[Bottom] = BlankRow(writer.color_code)

\* A row of the grid as the firmware left it.
IsOriginal(cell, r) == cell = InitBuffer[r][0]

\* The cell is one the writer wrote.
IsWritten(cell) == cell.color_code = writer.color_code

\* What C12 says of a state, k being the new_line calls made so far.
C12_State ==
    LET k == writer.scrolls
    IN  \* an original row above the bottom row is k rows up, untouched
        /\ \A r \in 0 .. (BUFFER_HEIGHT - 2) :
              r >= k => writer.buffer[r - k] = InitBuffer[r]
        \* the original bottom row is k rows up too, under what was
        \* written into it before it was scrolled
        /\ Bottom >= k =>
              \A c \in Cols :
                 \/ writer.buffer[Bottom - k][c] = InitBuffer[Bottom][c]
                 \/ IsWritten(writer.buffer[Bottom - k][c])
        \* an original row scrolled past the top is nowhere in the grid
        /\ \A r \in Rows :
              r < k => \A i \in Rows : \A c \in Cols :
                          ~IsOriginal(writer.buffer[i][c], r)
        \* and an original row is nowhere but k rows up
        /\ \A r \in Rows : \A i \in Rows : \A c \in Cols :
              IsOriginal(writer.buffer[i][c], r) => i = r - k
        \* right after a scroll the bottom row is blank
        /\ (writer.trace # <<>>
              /\ writer.trace[Len(writer.trace)].ev = "new_line")
             => writer.buffer[Bottom] = BlankRow(writer.color_code)

\* C12: after k newlines, explicit or by wrapping, the content that was in
\* row r is in row r - k when r >= k and is nowhere in the grid otherwise
\* (after height newlines no original row is left), and right after a
\* scroll, before any further write, the bottom row is blank.  Said of the
\* rows the firmware left, counted from construction, and of every row
\* above the bottom row, counted over one call.
C12_ScrollOff ==
    [][ nOps' = nOps + 1 =>
          /\ C12_State'
          /\ writer'.scrolls
                = writer.scrolls + Len(Events(writer'.trace, "new_line"))
          /\ LET k == Len(Events(writer'.trace, "new_line"))
             IN  \A r \in 0 .. (BUFFER_HEIGHT - 2) :
                    r >= k => writer'.buffer[r - k] = writer.buffer[r]
      ]_vars

\* C12 witness: height newlines have been made and no cell of the rows the
\* firmware left remains.
C12_Witness ==
    /\ writer.scrolls = BUFFER_HEIGHT
    /\ \A r \in Rows : \A i \in Rows : \A c \in Cols :
          ~IsOriginal(writer.buffer[i][c], r)
    /\ writer.buffer[Bottom] = BlankRow(writer.color_code)

\* C18: write_byte('\t') makes exactly five write_byte(' ') calls whatever
\* the column (no tab stop).  From a column c with c + 5 <= width the
\* bottom row gains five spaces at c .. c + 4, nothing else changes and the
\* column is c + 5.  With fewer than five cells left the tab wraps once,
\* after the width - c spaces that still fit: those are one row up, the
\* others are at the start of the new bottom row, and the column is their
\* number.
C18_TabFiveSpaces ==
    [][ (IsCall("write_byte") /\ last'.byte = TAB) =>
          LET tr     == writer'.trace
              calls  == Events(tr, "write_byte")
              puts   == Events(tr, "put")
              wraps  == {i \in 1 .. Len(tr) : tr[i].ev = "new_line"}
              c      == writer.column_position
              blank  == ScreenChar(SPACE, writer.color_code)
              fit    == BUFFER_WIDTH - c
              putsBefore(i) ==
                  Cardinality({j \in 1 .. (i - 1) : tr[j].ev = "put"})
          IN  /\ ~writer'.panicked
              /\ Len(calls) = 1 + 5
              /\ calls[1].byte = TAB
              /\ \A i \in 2 .. Len(calls) : calls[i].byte = SPACE
              /\ Len(puts) = 5
              /\ \A i \in 1 .. Len(puts) : puts[i].byte = SPACE
              /\ (c + 5 <= BUFFER_WIDTH =>
                    /\ wraps = {}
                    /\ \A i \in Rows : \A j \in Cols :
                          writer'.buffer[i][j] =
                             (IF i = Bottom /\ j >= c /\ j <= c + 4
                              THEN blank ELSE writer.buffer[i][j])
                    /\ writer'.column_position = c + 5)
              /\ (c + 5 > BUFFER_WIDTH =>
                    /\ Cardinality(wraps) = 1
                    /\ \A i \in wraps : putsBefore(i) = fit
                    /\ \A j \in Cols :
                          writer'.buffer[Bottom - 1][j] =
                             (IF j >= c THEN blank
                              ELSE writer.buffer[Bottom][j])
                    /\ \A j \in 0 .. (5 - fit - 1) :
                          writer'.buffer[Bottom][j] = blank
                    /\ writer'.column_position = 5 - fit)
      ]_vars

\* C18 witness: a tab written from column 1, which no tab stop of five
\* columns would leave at column 6.
C18_Witness ==
    /\ last.op = "write_byte"
    /\ last.byte = TAB
    /\ writer.column_position = 1 + 5
    /\ Len(Events(writer.trace, "new_line")) = 0
    /\ writer.buffer[Bottom][1].ascii_character = SPACE
    /\ writer.buffer[Bottom][0].ascii_character # SPACE

\* --------------------------------------------- properties of the machine
InInit ==
    stack[1].pc \in {"init_gdt", "init_idt", "init_pics_lock", "init_pics",
                     "init_pics_unlock", "init_enable"}

\* C1: the console lock is held by mainline code only while the interrupts
\* are disabled, its holder is always the running context, and no context
\* ever waits for the console lock while it is held: no handler spins on a
\* lock held by the code it interrupted.
C1_NoSelfDeadlock ==
    /\ (locks.WRITER # 0 /\ stack[locks.WRITER].kind = "main")
          => ~interrupts_enabled
    /\ locks.WRITER # 0 => locks.WRITER = Depth
    /\ Top.pc = "lock" => locks.WRITER = 0
    /\ machine = "running"

\* C1 witness: after init(), mainline code that found the interrupts
\* enabled holds the console lock in the middle of a write, with the
\* interrupts disabled.
C1_Witness ==
    /\ Depth = 1
    /\ locks.WRITER = 1
    /\ Top.pc = "write"
    /\ Top.saved
    /\ Top.pending # <<>>
    /\ Len(Top.log) > 0
    /\ ~interrupts_enabled

\* C2: init() loads the vector table, then initializes the controllers,
\* then enables the interrupts: the interrupts are enabled, and a handler
\* runs, only with the table loaded and the controllers remapped, the
\* controllers are never initialized before the table is loaded, the
\* interrupts are disabled during the whole of init(), and the controller
\* lock is free whenever the interrupts are enabled.
C2_InitOrder ==
    /\ pics_initialized => idt_loaded
    /\ interrupts_enabled => (idt_loaded /\ pics_initialized)
    /\ Depth > 1 => (idt_loaded /\ pics_initialized)
    /\ InInit => (~interrupts_enabled /\ Depth = 1)
    /\ stack[1].pc = "init_enable" => locks.PICS = 0
    /\ interrupts_enabled => locks.PICS = 0
    /\ machine \notin {"reset", "double_fault"}

\* C2 witness: the keyboard handler has just started, after init().
C2_Witness ==
    /\ Depth = 2
    /\ Top.kind = "keyboard"
    /\ Top.pc = "k_lock"
    /\ stack[1].pc = "main"
    /\ idt_loaded
    /\ pics_initialized

\* The positions in a log of the events of one kind.
Positions(log, kind) == {i \in 1 .. Len(log) : log[i].ev = kind}

\* A handler returns: the stack loses its top frame.
Returns == Len(stack') = Depth - 1

\* C3: when a hardware-interrupt handler returns, its invocation has called
\* notify_end_of_interrupt exactly once, with the vector it was entered
\* through (32 in the timer handler, 33 in the keyboard handler), and every
\* console write, port read and decoding of the invocation came before it.
C3_OneEoiPerInvocation ==
    [][ Returns =>
          LET log  == Top.log
              eois == Positions(log, "eoi")
          IN  /\ Top.kind \in {"timer", "keyboard"}
              /\ Cardinality(eois) = 1
              /\ \A i \in eois :
                    /\ log[i].arg = Top.vector
                    /\ log[i].arg = (IF Top.kind = "timer" THEN 32 ELSE 33)
                    /\ \A j \in Positions(log, "write") \cup Positions(log, "read")
                              \cup Positions(log, "decode") : j < i
              /\ (Top.kind = "timer" => Positions(log, "write") # {})
              /\ (Top.kind = "keyboard" =>
                    Positions(log, "read") # {} /\ Positions(log, "decode") # {})
      ]_vars

\* C3 witness: the timer handler is about to return, having printed and
\* then acknowledged.
C3_Witness ==
    /\ Depth = 2
    /\ Top.kind = "timer"
    /\ Top.pc = "t_iret"
    /\ Positions(Top.log, "write") # {}
    /\ Positions(Top.log, "eoi") # {}

\* C4: with the controllers at offsets 32 and 40, the timer vector is
\* acknowledged to the primary controller exactly once and not to the
\* secondary; a vector of the secondary controller (40..47) is acknowledged
\* to both, the secondary first.
C4_AckRouting ==
    /\ PICS[1].offset = 32
    /\ PICS[2].offset = 40
    /\ Timer = 32
    /\ simulated.vector = Timer => simulated.acks = <<"primary">>
    /\ simulated.vector \in 40 .. 47
          => simulated.acks = <<"secondary", "primary">>

\* C4 witness: a vector of the secondary controller was delivered and
\* acknowledged.
C4_Witness ==
    /\ simulated.vector = 44
    /\ Len(simulated.acks) = 2

\* C5: when the keyboard handler returns, its invocation has read exactly
\* one byte from the data port, decoded exactly once, acknowledged the
\* keyboard vector as its last act, whatever the decode outcome, and has
\* written to the console exactly when the outcome was a decoded character
\* or a raw key; and the decoder the handler locks is the one the previous
\* invocations left: once created its state changes only where the handler
\* feeds it a byte.
C5_KeyboardHandler ==
    [][ /\ (Returns /\ Top.kind = "keyboard") =>
              LET log == Top.log
              IN  /\ Cardinality(Positions(log, "read")) = 1
                  /\ Cardinality(Positions(log, "decode")) = 1
                  /\ Top.outcome
                        \in {"error", "none", "nothing", "unicode", "raw"}
                  /\ Cardinality(Positions(log, "eoi")) = 1
                  /\ \A i \in Positions(log, "eoi") :
                        /\ log[i].arg = Keyboard
                        /\ \A j \in 1 .. Len(log) :
                              j > i => log[j].ev = "ack"
                  /\ (Positions(log, "write") # {}
                        <=> Top.outcome \in {"unicode", "raw"})
        /\ (keyboard.created /\ keyboard' # keyboard) =>
              (Top.kind = "keyboard" /\ Top.pc = "k_decode")
      ]_vars

\* C5 witness: the handler is about to return from an invocation that
\* decoded 0x48 as the second byte of an extended scancode, whose prefix
\* an earlier invocation had read.
C5_Witness ==
    /\ Depth = 2
    /\ Top.kind = "keyboard"
    /\ Top.pc = "k_iret"
    /\ Top.scancode = 72
    /\ Top.outcome = "raw"
    /\ Positions(Top.log, "write") # {}

\* C13: in test_println_output, where a newline, a printable string s of
\* at most one row and a newline are written under the console lock with
\* the interrupts disabled, the read-back finds the characters of s in
\* columns 0 .. len(s)-1 of row BUFFER_HEIGHT - 2, in order, and the
\* cursor in column 0.
C13_TestOutput ==
    Top.pc = "readback" =>
       /\ Depth = 1
       /\ Top.sect = "test"
       /\ locks.WRITER = 1
       /\ ~interrupts_enabled
       /\ Top.expect \in TestStrings
       /\ Len(Top.expect) <= BUFFER_WIDTH
       /\ \A i \in 1 .. Len(Top.expect) :
             /\ Printable(Top.expect[i])
             /\ writer.buffer[BUFFER_HEIGHT - 2][i - 1].ascii_character
                   = Top.expect[i]
       /\ writer.column_position = 0

\* C13 witness: the read-back of a string that fills a whole row, after
\* the timer handler has printed its dot.
C13_Witness ==
    /\ Top.pc = "readback"
    /\ Len(Top.expect) = BUFFER_WIDTH
    /\ writer.buffer[BUFFER_HEIGHT - 2][BUFFER_WIDTH - 1].ascii_character
          = Top.expect[BUFFER_WIDTH]
    /\ \E c \in Cols : writer.buffer[BUFFER_HEIGHT - 3][c].ascii_character = 46

\* The mainline code has completed a println!: the last byte it wrote is a
\* newline and its console section is not yet left.
LineCompleted ==
    /\ stack[1].sect = "print"
    /\ stack[1].pc \in {"unlock", "wi_sti"}
    /\ stack[1].log # <<>>
    /\ stack[1].log[Len(stack[1].log)].arg = NEWLINE

\* C14: whatever the number of newline-terminated lines the mainline code
\* prints, and with timer interrupts delivered between them, the cursor is
\* in column 0 when a line is completed, nothing panics, and the mainline
\* code never finds the console lock held.
C14_PrintlnMany ==
    /\ LineCompleted => (Depth = 1 /\ writer.column_position = 0)
    /\ ~writer.panicked
    /\ machine # "panicked"
    /\ (Depth = 1 /\ Top.pc = "lock") => locks.WRITER = 0

\* C14 witness: more lines than the grid has rows were printed, the timer
\* handler printed between two of them, and the last line is completed.
C14_Witness ==
    /\ LineCompleted
    /\ writer.scrolls > BUFFER_HEIGHT
    /\ writer.buffer[BUFFER_HEIGHT - 2][0].ascii_character = 46
    /\ writer.buffer[BUFFER_HEIGHT - 2][1].ascii_character = 78

\* The console lock is held by the mainline code.
MainHoldsWriter == locks.WRITER # 0 /\ stack[locks.WRITER].kind = "main"

\* C19: while the mainline code holds the console lock it is the running
\* context with the interrupts disabled, no handler starts, the grid and
\* the cursor change only by its own write, and when it releases the lock
\* the bytes written since it took the lock are those of its own text.
C19_PrintAtomic ==
    [][ MainHoldsWriter =>
          /\ Depth = 1
          /\ ~interrupts_enabled
          /\ Len(stack') = 1
          /\ (writer'.buffer # writer.buffer
                \/ writer'.column_position # writer.column_position)
                => (Top.kind = "main" /\ Top.pc = "write")
          /\ locks'.WRITER = 0 =>
                [i \in 1 .. Len(Events(writer.trace, "str_byte")) |->
                     Events(writer.trace, "str_byte")[i].byte]
                   = [i \in 1 .. Len(Top.log) |-> Top.log[i].arg]
      ]_vars

\* C19 witness: the mainline code is in the middle of a two-byte text,
\* holding the lock, after the timer handler printed its dot, with the
\* first byte of the text on the grid after the dot.
C19_Witness ==
    /\ MainHoldsWriter
    /\ Top.pc = "write"
    /\ Len(Top.pending) = 1
    /\ Len(Top.log) = 1
    /\ writer.column_position = 2
    /\ writer.buffer[BUFFER_HEIGHT - 1][0].ascii_character = 46

\* C20: handlers do not nest: a handler runs with the interrupts disabled,
\* a print inside a handler found them disabled and leaves them so, at
\* most one handler is on the stack, the decoder lock is held only by the
\* running keyboard handler, and no handler finds the decoder lock or the
\* controller lock held.
C20_NoNesting ==
    /\ Depth <= 2
    /\ Depth > 1 => (~interrupts_enabled /\ ~Top.saved)
    /\ \A i \in 2 .. Depth : stack[i].kind \in {"timer", "keyboard"}
    /\ locks.KEYBOARD # 0 =>
          (locks.KEYBOARD = Depth /\ Depth = 2 /\ Top.kind = "keyboard")
    /\ Top.pc = "k_lock" => locks.KEYBOARD = 0
    /\ (Depth > 1 /\ Top.pc \in {"t_pics_lock", "k_pics_lock"})
          => locks.PICS = 0

\* C20 witness: the keyboard handler, holding the decoder lock, has
\* printed a character and is about to lock the controllers, with the
\* interrupts still disabled.
C20_Witness ==
    /\ Depth = 2
    /\ Top.kind = "keyboard"
    /\ Top.pc = "k_pics_lock"
    /\ locks.KEYBOARD = 2
    /\ Positions(Top.log, "write") # {}
    /\ ~interrupts_enabled

\* C17: under the fair execution of the running code, an interrupt line in
\* service is eventually acknowledged, and a running handler eventually
\* returns to the mainline code with no line left in service and every
\* lock free.
C17_InterruptsServed ==
    /\ \A line \in {Timer - PIC_1_OFFSET, Keyboard - PIC_1_OFFSET} :
          (line \in in_service) ~> (line \notin in_service)
    /\ (Depth > 1) ~>
          (/\ Depth = 1
           /\ in_service = {}
           /\ locks.PICS = 0 /\ locks.KEYBOARD = 0 /\ locks.WRITER = 0)

\* C17 witness: the timer handler, which interrupted the mainline code
\* inside _print before the interrupts were disabled, has acknowledged and
\* is about to return.
C17_Witness ==
    /\ Depth = 2
    /\ Top.kind = "timer"
    /\ Top.pc = "t_iret"
    /\ stack[1].pc = "wi_cli"
    /\ stack[1].saved
    /\ in_service = {}

\* The bytes an invocation wrote to the console, in order.
Written(log) ==
    LET w == SelectSeq(log, LAMBDA e : e.ev = "write")
    IN  [i \in 1 .. Len(w) |-> w[i].arg]

\* The lines an invocation printed, by their first byte, in order.
Printed(log) ==
    LET w == SelectSeq(log, LAMBDA e : e.ev = "println")
    IN  [i \in 1 .. Len(w) |-> w[i].arg]

InBreakpoint == Depth > 1 /\ Top.kind = "breakpoint"

\* C15: a breakpoint taken by the mainline code after init(), outside a
\* console section, runs breakpoint_handler with the interrupts disabled:
\* the handler finds the console lock free, writes its text, and returns
\* to the mainline code, which is where it was, with the interrupts enabled
\* again; nothing halts or panics, and under the fair execution of the
\* running code the handler always gets there.
C15_BreakpointResumes ==
    /\ [][ InBreakpoint =>
             /\ Depth = 2
             /\ ~interrupts_enabled
             /\ Top.pc = "lock" => locks.WRITER = 0
             /\ machine' = "running"
             /\ stack'[1] = stack[1]
             /\ Returns =>
                   /\ Written(Top.log) = BreakpointText
                   /\ stack'[1].pc = "main"
                   /\ interrupts_enabled'
                   /\ locks'.WRITER = 0
         ]_vars
    /\ InBreakpoint ~>
          (Depth = 1 /\ stack[1].pc = "main" /\ machine = "running"
             /\ interrupts_enabled)

\* C15 witness: breakpoint_handler has printed and is about to return.
C15_Witness ==
    /\ InBreakpoint
    /\ Top.pc = "bp_iret"
    /\ Written(Top.log) = BreakpointText
    /\ stack[1].pc = "main"
    /\ writer.buffer[BUFFER_HEIGHT - 2][0].ascii_character = 70

InFault == Depth > 1 /\ Top.kind \in {"page_fault", "double_fault"}

\* C16: page_fault_handler and double_fault_handler never return and the
\* mainline code they interrupted takes no further step: the frame of the
\* handler stays on the stack with the interrupts disabled; the processor
\* is parked by page_fault_handler only after it printed the heading, the
\* accessed address, the error code and the frame, in this order; the
\* double fault ends in a panic that is reported before the handler loops;
\* once parked or panicked the machine takes no step.
C16_FatalFaults ==
    [][ InFault =>
          /\ machine = "running"
          /\ Len(stack') = Depth
          /\ stack'[1] = stack[1]
          /\ ~interrupts_enabled /\ ~interrupts_enabled'
          /\ machine' = "halted" =>
                /\ Top.kind = "page_fault"
                /\ Printed(Top.log) = <<Head(PageFaultHeading),
                                        Head(PageFaultAddressText),
                                        Head(PageFaultErrorCodeText),
                                        Head(PageFaultFrameText)>>
                /\ Written(Top.log) = PageFaultHeading \o PageFaultAddressText
                                        \o PageFaultErrorCodeText
                                        \o PageFaultFrameText
          /\ machine' = "panicked" =>
                /\ Top.kind = "double_fault"
                /\ LET log == stack'[Depth].log
                   IN  /\ Len(log) > 1
                       /\ log[1].ev = "panic"
                       /\ log[2].ev = "serial"
                       /\ stack'[Depth].pc = "panic_loop"
      ]_vars

\* C16 witness: the processor is parked by page_fault_handler, whose four
\* lines are on the grid.
C16_Witness ==
    /\ InFault
    /\ Top.kind = "page_fault"
    /\ machine = "halted"
    /\ Len(Printed(Top.log)) = 4
    /\ writer.buffer[BUFFER_HEIGHT - 2][0].ascii_character = 70
    /\ stack[1].pc = "main"

====
